---------------------------- MODULE Spec2Model ----------------------------
(***************************************************************************)
(* Network Vector (src/src/nvector.py): the concurrent discovery engine.   *)
(*                                                                         *)
(* main() builds one RawPortScanner and calls scan_network once per        *)
(* comma-separated target.  scan_network expands the target, submits one   *)
(* scan_host task per host to a thread pool and waits; scan_host submits   *)
(* one scan_port probe per entry of the port list to a second pool,        *)
(* collects the open ports in completion order and then publishes the      *)
(* host into the engine's result maps.                                     *)
(***************************************************************************)
EXTENDS Integers, Sequences, FiniteSets, TLC

(***************************************************************************)
(* Bounds of the model.                                                    *)
(***************************************************************************)
\* longest port list given to --ports
MaxPorts == 2
\* most targets in the comma-separated target argument
MaxTargets == 2
\* most probes (hosts times ports, summed over the targets) of one run
MaxProbes == 3
\* longest open-port list handed to detect_os on its own
MaxOpenPorts == 4
\* host bits of the widest network whose address list the model writes out
MaxHostBits == 9
\* the longest configured stealth delay, in units of the smallest positive
\* float (5e-324 s)
MaxDelay == 3
\* random.random() returns k / RandomSteps for a k in 0..RandomSteps - 1
\* (2^53 steps in CPython)
RandomSteps == 4

(***************************************************************************)
(* Program constants.                                                      *)
(***************************************************************************)
\* RawPortScanner(max_threads=1000)
DefaultMaxThreads == 1000
\* min(50, len(hosts)) host workers
HostPoolCap == 50
\* if len(hosts) > 255: hosts = hosts[:255]
HostLimit == 255

\* the ports that --ports draws from here: a web port and a file-service port
PortUniverse == {80, 445}
\* if port in [445, 139, 2049]
FileServicePorts == {445, 139, 2049}

\* the addresses the targets below expand to
AllHosts == {"10.0.0.1", "10.0.0.2"}
\* target strings: a single address, a CIDR block, and one that does not parse
Targets == {"10.0.0.1", "10.0.0.0/30", "300.300.300.300/24"}

NoMap == <<>>

Range(s) == {s[i] : i \in 1..Len(s)}

Min(a, b) == IF a < b THEN a ELSE b

\* the port lists main() can pass (args.ports, nargs='+', or none at all
\* when the list is built by a caller of scan_network)
PortLists == UNION {[1..n -> PortUniverse] : n \in 0..MaxPorts}

(***************************************************************************)
(* Library behaviour the code relies on.                                   *)
(***************************************************************************)
\* ipaddress.ip_network(target, strict=False): the exception it raises.  A
\* target that parses neither as an IPv4 nor as an IPv6 network raises a
\* plain ValueError; AddressValueError and NetmaskValueError never leave
\* ip_network.
ip_network_raises(target) ==
    IF target \in {"10.0.0.1", "10.0.0.0/30"} THEN "none" ELSE "ValueError"

\* [str(ip) for ip in network.hosts()]: the usable addresses, in network
\* order
network_hosts(target) ==
    IF target = "10.0.0.0/30" THEN <<"10.0.0.1", "10.0.0.2">>
    ELSE <<"10.0.0.1">>

\* except ipaddress.AddressValueError: what the handler around the parse
\* step of scan_network catches
ParseHandlerCatches(e) == e = "AddressValueError"

\* sorted(): insertion of x into an ascending sequence, keeping duplicates
RECURSIVE Insert(_, _)
Insert(x, s) ==
    IF s = <<>> THEN <<x>>
    ELSE IF x <= Head(s) THEN <<x>> \o s
    ELSE <<Head(s)>> \o Insert(x, Tail(s))

RECURSIVE sorted(_)
sorted(s) == IF s = <<>> THEN <<>> ELSE Insert(Head(s), sorted(Tail(s)))

\* a shuffle that samples with replacement instead of permuting
shuffle_resample(s) == [1..Len(s) -> Range(s)]

\* random.shuffle: every reordering of the list
shuffle(s) ==
    {[i \in 1..Len(s) |-> s[p[i]]] : p \in Permutations(1..Len(s))}

(***************************************************************************)
(* scan_port                                                               *)
(***************************************************************************)
\* what the network can answer to one connect attempt
NetOutcomes == {"connected", "refused", "socket_error", "other_error"}

\* the state of the probe's future once scan_port has run:
\* "open" = (True, t), "closed" = (False, None), "raised" = an exception
\* that is not a socket.error left scan_port
scan_port(net) ==
    CASE net = "connected"    -> "open"
      [] net = "refused"      -> "closed"
      [] net = "socket_error" -> "closed"
      [] OTHER                -> "raised"

\* the exceptions of the model that derive from Exception (KeyboardInterrupt
\* derives from BaseException only)
ExceptionClasses ==
    {"ValueError", "PoolValueError", "SubmitRuntimeError", "ProbeException",
     "TimeoutExpired", "CalledProcessError", "FileNotFoundError",
     "UnicodeDecodeError"}

\* a result loop that catches what scan_port catches, socket.error, only
ProbeLoopCatchesSocketError(e) == e = "socket.error"

\* except Exception as exc: pass  (the as_completed loop of scan_host)
ProbeLoopCatches(e) == e \in ExceptionClasses

\* a host loop that catches RuntimeError only
HostLoopCatchesRuntimeError(e) == e = "SubmitRuntimeError"

\* a host loop that catches ValueError only
HostLoopCatchesValueError(e) == e \in {"ValueError", "PoolValueError"}

\* except Exception as exc: print(...)  (the as_completed loop of
\* scan_network)
HostLoopCatches(e) == e \in ExceptionClasses

(***************************************************************************)
(* SMBShareEnumerator.enumerate_shares                                     *)
(***************************************************************************)
\* what running 'net view' or 'smbclient -L' can come to: the 10 s timeout
\* expires, the binary is missing, the exit code is not 0, the output is not
\* text, exit code 0 with output that holds no share list, with a list of
\* hidden shares only, with a list that names a share
CommandOutcomes ==
    {"timeout", "missing_binary", "nonzero_exit", "decode_error",
     "unparsable", "no_shares", "shares"}

\* subprocess.run(cmd, capture_output=True, text=True, timeout=10): the
\* exception it raises
subprocess_run_raises(cmd) ==
    CASE cmd = "timeout"        -> "TimeoutExpired"
      [] cmd = "missing_binary" -> "FileNotFoundError"
      [] cmd = "decode_error"   -> "UnicodeDecodeError"
      [] OTHER                  -> "none"

\* a handler for the expired timeout and the failed command only
EnumeratorCatchesTimeout(e) == e \in {"TimeoutExpired", "CalledProcessError"}

\* except (TimeoutExpired, CalledProcessError, FileNotFoundError): pass
\* except Exception as e: print(...)
EnumeratorCatches(e) ==
    \/ e \in {"TimeoutExpired", "CalledProcessError", "FileNotFoundError"}
    \/ e \in ExceptionClasses

\* the exception that leaves enumerate_shares, "none" when it returns
enumerate_shares_raises(cmd) ==
    IF subprocess_run_raises(cmd) # "none"
       /\ ~EnumeratorCatches(subprocess_run_raises(cmd))
    THEN subprocess_run_raises(cmd)
    ELSE "none"

\* the list enumerate_shares returns: the parsed share names after exit code
\* 0, the empty list at line 109 otherwise
enumerate_shares(cmd) == IF cmd = "shares" THEN <<"public">> ELSE <<>>

(***************************************************************************)
(* resolve_hostname                                                        *)
(***************************************************************************)
\* the reverse zone of the scanned network: 10.0.0.1 has a PTR record,
\* 10.0.0.2 has none
PtrRecords == [ip \in {"10.0.0.1"} |-> "alpha"]

\* socket.gethostbyaddr(ip)[0], or the socket.herror it raises
gethostbyaddr(ip) == IF ip \in DOMAIN PtrRecords THEN PtrRecords[ip] ELSE "herror"

\* lines 134-142: "<ip>-<hostname>" after a lookup that succeeded, the bare
\* address after one that raised herror, gaierror or timeout
display_name(ip) ==
    IF gethostbyaddr(ip) # "herror" THEN ip \o "-" \o gethostbyaddr(ip) ELSE ip

(***************************************************************************)
(* detect_os (lines 245-453)                                               *)
(***************************************************************************)
windows_signatures ==
    (135 :> [score |-> 4, service |-> "RPC Endpoint Mapper"])
 @@ (139 :> [score |-> 3, service |-> "NetBIOS Session Service"])
 @@ (445 :> [score |-> 3, service |-> "Microsoft-DS (SMB)"])
 @@ (3389 :> [score |-> 5, service |-> "Remote Desktop Protocol"])
 @@ (1433 :> [score |-> 3, service |-> "MS SQL Server"])
 @@ (1434 :> [score |-> 3, service |-> "MS SQL Monitor"])
 @@ (5357 :> [score |-> 4, service |-> "Windows Service Discovery"])
 @@ (5985 :> [score |-> 4, service |-> "WinRM HTTP"])
 @@ (5986 :> [score |-> 4, service |-> "WinRM HTTPS"])
 @@ (593 :> [score |-> 3, service |-> "HTTP RPC Ep Map"])
 @@ (49152 :> [score |-> 2, service |-> "Windows Dynamic RPC"])
 @@ (49153 :> [score |-> 2, service |-> "Windows Dynamic RPC"])
 @@ (49154 :> [score |-> 2, service |-> "Windows Dynamic RPC"])
 @@ (49155 :> [score |-> 2, service |-> "Windows Dynamic RPC"])
 @@ (1024 :> [score |-> 2, service |-> "Windows Reserved"])
 @@ (1025 :> [score |-> 2, service |-> "Windows NFS or IIS"])
 @@ (1026 :> [score |-> 2, service |-> "Windows Calendar"])
 @@ (1027 :> [score |-> 2, service |-> "Windows ICQ"])
 @@ (8080 :> [score |-> 1, service |-> "Windows IIS Alt HTTP"])

linux_signatures ==
    (22 :> [score |-> 3, service |-> "SSH (OpenSSH)"])
 @@ (111 :> [score |-> 3, service |-> "RPC Portmapper"])
 @@ (2049 :> [score |-> 4, service |-> "Network File System"])
 @@ (514 :> [score |-> 3, service |-> "Remote Shell (rsh)"])
 @@ (515 :> [score |-> 3, service |-> "Line Printer Daemon"])
 @@ (993 :> [score |-> 2, service |-> "IMAPS (Linux bias)"])
 @@ (995 :> [score |-> 2, service |-> "POP3S (Linux bias)"])
 @@ (6000 :> [score |-> 3, service |-> "X11 Display"])
 @@ (6001 :> [score |-> 3, service |-> "X11 Display"])
 @@ (6002 :> [score |-> 3, service |-> "X11 Display"])
 @@ (7000 :> [score |-> 2, service |-> "X11 Font Server"])
 @@ (10000 :> [score |-> 3, service |-> "Webmin (Linux admin)"])
 @@ (20000 :> [score |-> 2, service |-> "DNP (Linux)"])

macos_signatures ==
    (548 :> [score |-> 4, service |-> "AFP (Apple Filing Protocol)"])
 @@ (631 :> [score |-> 3, service |-> "CUPS (macOS printing)"])
 @@ (5009 :> [score |-> 4, service |-> "AirPort Admin Utility"])
 @@ (5353 :> [score |-> 2, service |-> "Bonjour/mDNS"])
 @@ (62078 :> [score |-> 4, service |-> "Apple iPhoto sharing"])
 @@ (3283 :> [score |-> 3, service |-> "Apple NetAssistant"])
 @@ (5222 :> [score |-> 2, service |-> "Apple iChat"])

embedded_signatures ==
    (81 :> [score |-> 3, service |-> "Embedded Web Interface"])
 @@ (82 :> [score |-> 3, service |-> "Embedded Web Interface"])
 @@ (8008 :> [score |-> 3, service |-> "Embedded HTTP Alt"])
 @@ (9999 :> [score |-> 3, service |-> "Embedded Telnet"])
 @@ (4444 :> [score |-> 3, service |-> "Embedded Admin"])
 @@ (8888 :> [score |-> 3, service |-> "Embedded Web Admin"])
 @@ (9000 :> [score |-> 2, service |-> "Embedded Management"])
 @@ (10001 :> [score |-> 3, service |-> "Embedded Control"])

database_services ==
    (3306 :> [windows |-> 1, linux |-> 2, service |-> "MySQL"])
 @@ (5432 :> [windows |-> 1, linux |-> 3, service |-> "PostgreSQL"])
 @@ (1521 :> [windows |-> 2, linux |-> 2, service |-> "Oracle DB"])
 @@ (27017 :> [windows |-> 1, linux |-> 2, service |-> "MongoDB"])
 @@ (6379 :> [windows |-> 1, linux |-> 2, service |-> "Redis"])

web_services ==
    (80 :> [windows |-> 1, linux |-> 2, service |-> "HTTP"])
 @@ (443 :> [windows |-> 1, linux |-> 2, service |-> "HTTPS"])
 @@ (8080 :> [windows |-> 2, linux |-> 1, service |-> "HTTP Alt"])
 @@ (8443 :> [windows |-> 1, linux |-> 2, service |-> "HTTPS Alt"])
 @@ (9080 :> [windows |-> 1, linux |-> 2, service |-> "HTTP Management"])
 @@ (9443 :> [windows |-> 1, linux |-> 2, service |-> "HTTPS Management"])

\* port_combinations, in the order of the dict literal
port_combinations ==
    << [combo |-> <<135, 139, 445>>, os |-> "Windows", bonus |-> 5,
        desc |-> "Classic Windows file sharing stack"],
       [combo |-> <<135, 445, 3389>>, os |-> "Windows", bonus |-> 6,
        desc |-> "Windows with Remote Desktop"],
       [combo |-> <<139, 445>>, os |-> "Windows", bonus |-> 3,
        desc |-> "SMB file sharing"],
       [combo |-> <<1433, 1434>>, os |-> "Windows", bonus |-> 4,
        desc |-> "MS SQL Server setup"],
       [combo |-> <<22, 111, 2049>>, os |-> "Linux", bonus |-> 5,
        desc |-> "Linux NFS server"],
       [combo |-> <<22, 80, 443>>, os |-> "Linux", bonus |-> 3,
        desc |-> "Linux web server"],
       [combo |-> <<22, 3306>>, os |-> "Linux", bonus |-> 3,
        desc |-> "Linux MySQL server"],
       [combo |-> <<22, 5432>>, os |-> "Linux", bonus |-> 3,
        desc |-> "Linux PostgreSQL server"],
       [combo |-> <<548, 631>>, os |-> "macOS", bonus |-> 4,
        desc |-> "macOS file and print sharing"],
       [combo |-> <<22, 548>>, os |-> "macOS", bonus |-> 3,
        desc |-> "macOS with SSH and AFP"] >>

\* windows_signatures[port]['score'] if port in windows_signatures
signature_score(signatures, port) ==
    IF port \in DOMAIN signatures THEN signatures[port].score ELSE 0

\* lines 341-371: what one entry of open_ports adds to each score
port_score(port) ==
    [windows |-> signature_score(windows_signatures, port)
                 + (IF port \in DOMAIN database_services
                    THEN database_services[port].windows ELSE 0)
                 + (IF port \in DOMAIN web_services
                    THEN web_services[port].windows ELSE 0),
     linux |-> signature_score(linux_signatures, port)
               + (IF port \in DOMAIN database_services
                  THEN database_services[port].linux ELSE 0)
               + (IF port \in DOMAIN web_services
                  THEN web_services[port].linux ELSE 0),
     macos |-> signature_score(macos_signatures, port),
     embedded |-> signature_score(embedded_signatures, port)]

\* lines 344-371: what one entry of open_ports appends to detected_services:
\* the tag before the colon and the service name after it
port_services(port) ==
    (IF port \in DOMAIN windows_signatures
     THEN <<[tag |-> "Windows", service |-> windows_signatures[port].service]>>
     ELSE <<>>)
    \o (IF port \in DOMAIN linux_signatures
        THEN <<[tag |-> "Linux", service |-> linux_signatures[port].service]>>
        ELSE <<>>)
    \o (IF port \in DOMAIN macos_signatures
        THEN <<[tag |-> "macOS", service |-> macos_signatures[port].service]>>
        ELSE <<>>)
    \o (IF port \in DOMAIN embedded_signatures
        THEN <<[tag |-> "Embedded", service |-> embedded_signatures[port].service]>>
        ELSE <<>>)
    \o (IF port \in DOMAIN database_services
        THEN <<[tag |-> "Database", service |-> database_services[port].service]>>
        ELSE <<>>)
    \o (IF port \in DOMAIN web_services
        THEN <<[tag |-> "Web", service |-> web_services[port].service]>>
        ELSE <<>>)

\* the loop of lines 340-371 over open_ports: the four scores
RECURSIVE signature_scores(_)
signature_scores(open_ports) ==
    IF open_ports = <<>>
    THEN [windows |-> 0, linux |-> 0, macos |-> 0, embedded |-> 0]
    ELSE LET p == port_score(Head(open_ports))
             r == signature_scores(Tail(open_ports))
         IN [windows |-> p.windows + r.windows, linux |-> p.linux + r.linux,
             macos |-> p.macos + r.macos, embedded |-> p.embedded + r.embedded]

\* the loop of lines 340-371 over open_ports: detected_services
RECURSIVE detected_services(_)
detected_services(open_ports) ==
    IF open_ports = <<>> THEN <<>>
    ELSE port_services(Head(open_ports)) \o detected_services(Tail(open_ports))

\* a bonus given as soon as one port of the combination is open
combo_any_present(combo, open_ports) ==
    \E i \in 1..Len(combo) : combo[i] \in Range(open_ports)

\* all(port in open_ports for port in combo)
combo_present(combo, open_ports) ==
    \A i \in 1..Len(combo) : combo[i] \in Range(open_ports)

\* the entries of port_combinations whose ports are all open, in dict order
matched_combinations(open_ports) ==
    SelectSeq(port_combinations, LAMBDA c : combo_present(c.combo, open_ports))

\* lines 394-401: the bonuses added to the score of one OS
RECURSIVE bonus_sum(_, _)
bonus_sum(combos, os) ==
    IF combos = <<>> THEN 0
    ELSE (IF Head(combos).os = os THEN Head(combos).bonus ELSE 0)
         + bonus_sum(Tail(combos), os)

\* the four scores after the combination bonuses (lines 340-402)
final_scores(open_ports) ==
    LET s == signature_scores(open_ports)
        c == matched_combinations(open_ports)
    IN [windows_score |-> s.windows + bonus_sum(c, "Windows"),
        linux_score |-> s.linux + bonus_sum(c, "Linux"),
        macos_score |-> s.macos + bonus_sum(c, "macOS"),
        embedded_score |-> s.embedded]

\* max(windows_score, linux_score, macos_score, embedded_score)
max_score(s) ==
    CHOOSE m \in {s.windows_score, s.linux_score, s.macos_score, s.embedded_score} :
      \A x \in {s.windows_score, s.linux_score, s.macos_score, s.embedded_score} :
        x <= m

\* an if/elif chain that tests Linux before Windows
os_category_linux_first(s) ==
    LET m == max_score(s)
    IN IF s.linux_score = m /\ s.linux_score > 0 THEN "Linux/Unix"
       ELSE IF s.windows_score = m /\ s.windows_score > 0 THEN "Windows"
       ELSE IF s.macos_score = m /\ s.macos_score > 0 THEN "macOS"
       ELSE IF s.embedded_score = m /\ s.embedded_score > 0 THEN "Embedded/IoT"
       ELSE "Conflicting"

\* the if/elif chain of lines 415-436: the branch taken
os_category(s) ==
    LET m == max_score(s)
    IN IF s.windows_score = m /\ s.windows_score > 0 THEN "Windows"
       ELSE IF s.linux_score = m /\ s.linux_score > 0 THEN "Linux/Unix"
       ELSE IF s.macos_score = m /\ s.macos_score > 0 THEN "macOS"
       ELSE IF s.embedded_score = m /\ s.embedded_score > 0 THEN "Embedded/IoT"
       ELSE "Conflicting"

\* len([s for s in detected_services if tag in s]): no service name holds
\* the tag of another table, so the entries counted are those of the tag
tagged(services, tag) == Len(SelectSeq(services, LAMBDA d : d.tag = tag))

\* services[:n]
first(s, n) == SubSeq(s, 1, Min(n, Len(s)))

\* ", ".join(descs)
RECURSIVE join(_)
join(descs) ==
    IF descs = <<>> THEN ""
    ELSE IF Len(descs) = 1 THEN Head(descs).desc
    ELSE Head(descs).desc \o ", " \o join(Tail(descs))

\* lines 438-440: details += ', Patterns: ...' with the first two matches
with_patterns(details, open_ports) ==
    IF matched_combinations(open_ports) # <<>>
    THEN details \o ", Patterns: " \o join(first(matched_combinations(open_ports), 2))
    ELSE details

\* the score of the category that was chosen
category_score(s, category) ==
    CASE category = "Windows" -> s.windows_score
      [] category = "Linux/Unix" -> s.linux_score
      [] category = "macOS" -> s.macos_score
      [] OTHER -> s.embedded_score

\* thresholds that a score has to exceed
confidence_above(category, score) ==
    CASE category = "Windows" ->
           IF score > 6 THEN "High" ELSE IF score > 3 THEN "Medium" ELSE "Low"
      [] category = "Linux/Unix" ->
           IF score > 5 THEN "High" ELSE IF score > 3 THEN "Medium" ELSE "Low"
      [] category = "macOS" ->
           IF score > 4 THEN "High" ELSE IF score > 2 THEN "Medium" ELSE "Low"
      [] OTHER ->
           IF score > 3 THEN "Medium" ELSE "Low"

\* lines 416, 420, 424 and 428: the confidence of a classification
confidence(category, score) ==
    CASE category = "Windows" ->
           IF score >= 6 THEN "High" ELSE IF score >= 3 THEN "Medium" ELSE "Low"
      [] category = "Linux/Unix" ->
           IF score >= 5 THEN "High" ELSE IF score >= 3 THEN "Medium" ELSE "Low"
      [] category = "macOS" ->
           IF score >= 4 THEN "High" ELSE IF score >= 2 THEN "Medium" ELSE "Low"
      [] OTHER ->
           IF score >= 3 THEN "Medium" ELSE "Low"

detect_os(open_ports) ==
    IF open_ports = <<>>
    THEN [os |-> "Unknown", confidence |-> "Low",
          details |-> "No open ports detected"]
    ELSE
    LET s == final_scores(open_ports)
        services == detected_services(open_ports)
        category == os_category(s)
    IN IF max_score(s) = 0
       THEN [os |-> "Unknown", confidence |-> "Low",
             details |-> "No distinctive OS patterns found. Ports: "
                           \o ToString(sorted(open_ports))]
       ELSE IF category = "Conflicting"
       THEN [os |-> "Unknown", confidence |-> "Low",
             details |-> "Conflicting indicators. W:" \o ToString(s.windows_score)
                           \o " L:" \o ToString(s.linux_score)
                           \o " M:" \o ToString(s.macos_score)
                           \o " E:" \o ToString(s.embedded_score)]
       ELSE
       [os |-> IF category = "Windows"
                  /\ \E i \in 1..Len(open_ports) :
                       open_ports[i] \in {1433, 1434, 5985, 5986}
               THEN "Windows Server" ELSE category,
        confidence |-> confidence(category, category_score(s, category)),
        details |->
          with_patterns(
            CASE category = "Windows" ->
                   "Score: " \o ToString(s.windows_score) \o ", Services: "
                     \o ToString(tagged(services, "Windows"))
              [] category = "Linux/Unix" ->
                   "Score: " \o ToString(s.linux_score) \o ", Services: "
                     \o ToString(tagged(services, "Linux"))
              [] category = "macOS" ->
                   "Score: " \o ToString(s.macos_score) \o ", Services: "
                     \o ToString(tagged(services, "macOS"))
              [] OTHER ->
                   "Score: " \o ToString(s.embedded_score)
                     \o ", Embedded services detected",
            open_ports),
        detected_services |-> first(services, 5),
        port_analysis |-> s]

VARIABLES
    cfg,                    \* the RawPortScanner constructor arguments
    ports_to_scan,          \* main: the port list of the run
    main_pc,                \* where the main thread is
    exc,                    \* the exception that ended main's try block
    targets_scanned,        \* main: targets handed to scan_network so far
    probes_total,           \* hosts times ports of the targets scanned so far
    target,                 \* scan_network: its target argument
    task,                   \* one scan_host task per address
    scan_results,           \* self.scan_results
    host_details,           \* self.host_details
    share_results,          \* self.share_results
    hostname_cache,         \* self.hostname_cache
    combined_scan_results,  \* main: combined_scan_results
    combined_share_results, \* main: combined_share_results
    combined_host_details,  \* main: combined_host_details
    results,                \* main: results, the dict scan_network returned
    reported,               \* main: scan_results, share_results and
                            \* host_details as lines 716-781 report them
    detect_os_arg,          \* detect_os called on its own: open_ports
    detect_os_ret,          \* detect_os called on its own: the dict returned
    sn_network,             \* scan_network on a large target: host bits of network
    sn_hosts,               \* scan_network on a large target: hosts
    sn_pc,                  \* scan_network on a large target: its position
    default_timeout,        \* socket's default timeout, process-wide
    sh,                     \* scan_host step by step: the frame of each call
    dns_queries             \* gethostbyaddr calls made so far, per address

vars == <<cfg, ports_to_scan, main_pc, exc, targets_scanned, probes_total,
          target, task, scan_results, host_details, share_results, hostname_cache,
          combined_scan_results, combined_share_results,
          combined_host_details, results, reported, detect_os_arg,
          detect_os_ret,
          sn_network, sn_hosts, sn_pc, default_timeout, sh, dns_queries>>

engine == <<scan_results, host_details, share_results, hostname_cache>>
combined == <<combined_scan_results, combined_share_results,
              combined_host_details>>
classifier == <<detect_os_arg, detect_os_ret>>

\* the object a reference points to
deref(ref) ==
    CASE ref = "self.scan_results" -> scan_results
      [] ref = "self.share_results" -> share_results
      [] ref = "self.host_details" -> host_details
      [] OTHER -> NoMap

\* what a dict of references holds, as a reader of the dict sees it
contents(d) == [k \in DOMAIN d |-> deref(d[k])]

expansion == <<sn_network, sn_hosts, sn_pc>>
opening == <<default_timeout, sh, dns_queries>>
standalone == <<classifier, expansion, opening>>

\* main before the first scan_network call has returned
NoResults == [scan_results |-> "unbound", share_results |-> "unbound",
              host_details |-> "unbound"]

\* lines 509-513: the dict scan_network returns holds the maps of the engine
\* themselves, not copies of them
ReturnedMaps == [scan_results |-> "self.scan_results",
                 share_results |-> "self.share_results",
                 host_details |-> "self.host_details"]

\* main before its loop has ended: nothing to report yet
NoReport == [scan_results |-> NoMap, share_results |-> NoMap,
             host_details |-> NoMap]

\* detect_os has not been called
NotCalled == [os |-> "not called"]

\* a thread-pool slot that holds no scan_host task
IdleTask ==
    [pc |-> "idle", host_display |-> "", randomized_ports |-> <<>>,
     fut |-> <<>>, workers |-> 0, open_ports |-> <<>>, exc |-> "none",
     enum_args |-> <<>>, enum_cmd |-> "", shares |-> <<>>]

\* executor.submit(self.scan_host, host, ports): queued, not yet started
QueuedTask ==
    [pc |-> "queued", host_display |-> "", randomized_ports |-> <<>>,
     fut |-> <<>>, workers |-> 0, open_ports |-> <<>>, exc |-> "none",
     enum_args |-> <<>>, enum_cmd |-> "", shares |-> <<>>]

\* dict.update(other): other's entries replace or extend d's
update(d, other) == other @@ d

\* d[key] = value
store(d, key, value) == (key :> value) @@ d

\* a wait that is over only for the tasks that returned normally
FinishedNormally(t) == t.pc \in {"idle", "done"}

\* as_completed hands out a future once its task has returned or raised
Finished(t) == t.pc \in {"idle", "done", "failed"}

AllFinished == \A h \in AllHosts : Finished(task[h])

\* a scan_host call that has not been made
NoFrame == [pc |-> "idle", old_timeout |-> "unset", host_display |-> "",
            delay |-> -1]

\* no scan_host call is followed step by step; Python starts with no
\* default socket timeout
NoOpening ==
    /\ default_timeout = "None"
    /\ sh = [h \in AllHosts |-> NoFrame]
    /\ dns_queries = [h \in AllHosts |-> 0]

\* scan_network has not been called on a large target
NoExpansion == sn_network = 0 /\ sn_hosts = <<>> /\ sn_pc = "idle"

(***************************************************************************)
(* RawPortScanner.__init__ and the start of main                           *)
(***************************************************************************)
Init ==
    /\ cfg \in [randomize_scan : BOOLEAN,
                max_threads : {1, DefaultMaxThreads},
                resolve_hostnames : BOOLEAN,
                enumerate_shares : BOOLEAN,
                scan_delay : {0}]   \* the default; ScanHostSpec has the others
    /\ ports_to_scan \in PortLists
    /\ main_pc = "loop"
    /\ exc = "none"
    /\ targets_scanned = 0
    /\ probes_total = 0
    /\ target = ""
    /\ task = [h \in AllHosts |-> IdleTask]
    /\ scan_results = NoMap
    /\ host_details = NoMap
    /\ share_results = NoMap
    /\ hostname_cache = NoMap
    /\ combined_scan_results = NoMap
    /\ combined_share_results = NoMap
    /\ combined_host_details = NoMap
    /\ results = NoResults
    /\ reported = NoReport
    /\ detect_os_arg = <<>>
    /\ detect_os_ret = NotCalled
    /\ NoExpansion
    /\ NoOpening

(***************************************************************************)
(* scan_network, up to the submission of the host tasks (lines 455-490),   *)
(* called from main's loop over the targets (lines 684-690)                *)
(***************************************************************************)
\* futures: the scan_host tasks submitted for the target being scanned
futures == {h \in AllHosts : task[h].pc # "idle"}

max_host_workers(n) == IF n > 10 THEN Min(HostPoolCap, n) ELSE n

Main_ScanNetwork(t) ==
    /\ main_pc = "loop"
    /\ targets_scanned < MaxTargets
    /\ targets_scanned' = targets_scanned + 1
    /\ target' = t
    /\ host_details' = NoMap
    /\ IF ip_network_raises(t) # "none" /\ ~ParseHandlerCatches(ip_network_raises(t))
       THEN \* the exception leaves scan_network and main's loop and is
            \* caught by main's except Exception
            /\ main_pc' = "error"
            /\ exc' = ip_network_raises(t)
            /\ UNCHANGED <<task, probes_total>>
       ELSE /\ probes_total' = probes_total
                                 + Len(network_hosts(t)) * Len(ports_to_scan)
            /\ probes_total' <= MaxProbes
            /\ \E hosts \in (IF cfg.randomize_scan
                             THEN shuffle(network_hosts(t))
                             ELSE {network_hosts(t)}) :
                 task' = [h \in AllHosts |->
                            IF h \in Range(hosts) THEN QueuedTask ELSE IdleTask]
            /\ main_pc' = "scanning"
            /\ UNCHANGED exc
    /\ UNCHANGED <<standalone, results, reported, cfg, ports_to_scan, scan_results, share_results,
                   hostname_cache, combined>>

(***************************************************************************)
(* scan_host (lines 162-243)                                               *)
(***************************************************************************)
Running(t) == t.pc \in {"probing", "pub_sr", "enum"}

\* a cache that answers with an entry it holds, whatever the address asked
resolve_hostname_any_entry(ip) ==
    IF hostname_cache # NoMap
    THEN [name |-> hostname_cache[CHOOSE k \in DOMAIN hostname_cache : TRUE],
          cache |-> hostname_cache]
    ELSE [name |-> display_name(ip),
          cache |-> store(hostname_cache, ip, display_name(ip))]

\* resolve_hostname: the display name and the cache after the call
resolve_hostname(ip) ==
    IF ip \in DOMAIN hostname_cache
    THEN [name |-> hostname_cache[ip], cache |-> hostname_cache]
    ELSE [name |-> display_name(ip),
          cache |-> store(hostname_cache, ip, display_name(ip))]

\* random.shuffle(ports): the list scan_host was given is put in the order
\* of the probes
ports_shuffled_in_place(ports, randomized_ports) == randomized_ports

\* lines 171-179: the list scan_host was given, after the port order has
\* been chosen: line 172 copies the list and line 173 shuffles the copy;
\* line 179 binds a second name to the list, and nothing writes through it
ports_after_order(ports, randomized_ports) == ports

\* a port pool as large as the port list, whatever max_threads is
max_workers_uncapped(n) == n

\* ThreadPoolExecutor(max_workers=min(self.max_threads, len(randomized_ports)))
max_workers(n) == Min(cfg.max_threads, n)

\* lines 162-190: display name, port order, the port pool and its futures
\* (the stealth delay of lines 175-177 only passes time).
\* submit_fails = 0: every probe is submitted; submit_fails = s > 0: the
\* thread for the s-th submit cannot be started (RuntimeError), with s
\* futures queued and s - 1 worker threads running.
HS_Start(h, submit_fails) ==
    /\ main_pc \in {"scanning", "unwinding"}
    /\ task[h].pc = "queued"
    /\ Cardinality({g \in AllHosts : Running(task[g])}) < max_host_workers(Cardinality(futures))
    /\ submit_fails \in 0..Len(ports_to_scan)
    /\ LET r == IF cfg.resolve_hostnames
                THEN resolve_hostname(h)
                ELSE [name |-> h, cache |-> hostname_cache]
           n == Len(ports_to_scan)
       IN /\ hostname_cache' = r.cache
          /\ \E rp \in (IF cfg.randomize_scan
                        THEN shuffle(ports_to_scan)
                        ELSE {ports_to_scan}) :
             /\ ports_to_scan' = ports_after_order(ports_to_scan, rp)
             /\ task' = [task EXCEPT ![h] =
                    IF max_workers(n) <= 0
                    THEN \* ThreadPoolExecutor(max_workers=0) raises ValueError
                         [@ EXCEPT !.pc = "failed", !.host_display = r.name,
                                   !.randomized_ports = rp, !.exc = "PoolValueError"]
                    ELSE IF submit_fails = 0
                    THEN [@ EXCEPT !.pc = "probing", !.host_display = r.name,
                                   !.randomized_ports = rp,
                                   !.fut = [i \in 1..n |-> "pending"],
                                   !.workers = max_workers(n)]
                    ELSE [@ EXCEPT !.pc = "probing", !.host_display = r.name,
                                   !.randomized_ports = rp,
                                   !.fut = [i \in 1..submit_fails |-> "pending"],
                                   !.workers = Min(max_workers(n), submit_fails - 1),
                                   !.exc = "SubmitRuntimeError"]]
    /\ UNCHANGED <<standalone, results, reported, cfg, main_pc, exc, targets_scanned, probes_total,
                   target, scan_results, host_details, share_results, combined>>

\* a worker of the port pool takes the oldest queued probe
ProbeStart(h, i) ==
    /\ task[h].pc = "probing"
    /\ i \in 1..Len(task[h].fut)
    /\ task[h].fut[i] = "pending"
    /\ \A j \in 1..(i - 1) : task[h].fut[j] # "pending"
    /\ Cardinality({j \in 1..Len(task[h].fut) : task[h].fut[j] = "running"})
         < task[h].workers
    /\ task' = [task EXCEPT ![h].fut[i] = "running"]
    /\ UNCHANGED <<standalone, results, reported, cfg, ports_to_scan, main_pc, exc, targets_scanned, probes_total,
                   target, engine, combined>>

\* scan_port returns or raises, and the as_completed loop of scan_host
\* (lines 193-212) handles the finished future
ProbeComplete(h, i, net) ==
    /\ task[h].pc = "probing"
    /\ i \in 1..Len(task[h].fut)
    /\ task[h].fut[i] = "running"
    /\ LET r == scan_port(net)
           port == task[h].randomized_ports[i]
       IN task' = [task EXCEPT ![h] =
            IF @.exc # "none"
            THEN \* the with block is being left by an exception: the
                 \* future finishes and nobody reads it
                 [@ EXCEPT !.fut[i] = r]
            ELSE IF r = "open"
            THEN [@ EXCEPT !.fut[i] = r, !.open_ports = Append(@, port)]
            ELSE IF r = "raised" /\ ~ProbeLoopCatches("ProbeException")
            THEN [@ EXCEPT !.fut[i] = r, !.exc = "ProbeException"]
            ELSE [@ EXCEPT !.fut[i] = r]]
    /\ UNCHANGED <<standalone, results, reported, cfg, ports_to_scan, main_pc, exc, targets_scanned, probes_total,
                   target, engine, combined>>

\* a pool that hands control back while probes are outstanding
PoolNotAwaited(t) == TRUE

\* the with block of scan_host ends: shutdown(wait=True) has joined every
\* worker, so every queued probe has run (no worker: nothing to join)
PoolDrained(t) ==
    \/ t.workers = 0
    \/ \A i \in 1..Len(t.fut) : t.fut[i] \notin {"pending", "running"}

\* shares are looked for on every host that has an open port
any_open_ports(t) == t.open_ports

\* file_service_ports: the open file-service ports, in completion order
file_service_ports(t) == SelectSeq(t.open_ports, LAMBDA p : p \in FileServicePorts)

\* lines 212-219: leave the pool; publish the sorted open ports
HS_PoolExit(h) ==
    /\ task[h].pc = "probing"
    /\ PoolDrained(task[h])
    /\ IF task[h].exc # "none"
       THEN /\ task' = [task EXCEPT ![h].pc = "failed"]
            /\ UNCHANGED scan_results
       ELSE IF task[h].open_ports = <<>>
       THEN /\ task' = [task EXCEPT ![h].pc = "done"]
            /\ UNCHANGED scan_results
       ELSE /\ task' = [task EXCEPT ![h].pc = "pub_sr"]
            /\ scan_results' = store(scan_results, task[h].host_display,
                                     sorted(task[h].open_ports))
    /\ UNCHANGED <<standalone, results, reported, cfg, ports_to_scan, main_pc, exc, targets_scanned, probes_total,
                   target, host_details, share_results, hostname_cache, combined>>

\* host_display.split('-', 1)[1] if '-' in host_display else None: the
\* display name is either the bare address or "<ip>-<hostname>"
hostname_of(ip, host_display) ==
    IF host_display = ip THEN "None" ELSE gethostbyaddr(ip)

\* lines 221-235: the host's detail record (open_ports in completion order;
\* the response times are left out, and so is os_detection, which is
\* detect_os(open_ports), a function of the open_ports field)
HS_PublishDetails(h) ==
    /\ task[h].pc = "pub_sr"
    /\ host_details' = store(host_details, task[h].host_display,
                             [ip |-> h,
                              hostname |-> hostname_of(h, task[h].host_display),
                              open_ports |-> task[h].open_ports,
                              port_count |-> Len(task[h].open_ports)])
    /\ task' = [task EXCEPT ![h] =
                  IF cfg.enumerate_shares /\ file_service_ports(task[h]) # <<>>
                  THEN \* self.smb_enumerator.enumerate_shares(host_ip)
                       [@ EXCEPT !.pc = "enum", !.enum_args = Append(@, h)]
                  ELSE [@ EXCEPT !.pc = "done"]]
    /\ UNCHANGED <<standalone, results, reported, cfg, ports_to_scan, main_pc, exc, targets_scanned, probes_total,
                   target, scan_results, share_results, hostname_cache, combined>>

\* a host on which no share was found is taken out of the results
enumeration_drops_host(maps, key, shares) ==
    IF shares # <<>>
    THEN [maps EXCEPT !.share_results = store(@, key, shares)]
    ELSE [maps EXCEPT
            !.scan_results = [k \in DOMAIN @ \ {key} |-> @[k]],
            !.host_details = [k \in DOMAIN @ \ {key} |-> @[k]]]

\* lines 238-241: what the list the enumerator returned does to the maps of
\* the engine: a non-empty list is stored in share_results, and nothing else
\* is written
enumeration_effect(maps, key, shares) ==
    IF shares # <<>>
    THEN [maps EXCEPT !.share_results = store(@, key, shares)]
    ELSE maps

\* lines 236-243: the share enumerator has returned or raised
HS_EnumerateShares(h, cmd) ==
    /\ task[h].pc = "enum"
    /\ IF enumerate_shares_raises(cmd) # "none"
       THEN /\ task' = [task EXCEPT ![h] =
                         [@ EXCEPT !.pc = "failed", !.enum_cmd = cmd,
                                   !.exc = enumerate_shares_raises(cmd)]]
            /\ UNCHANGED <<scan_results, host_details, share_results>>
       ELSE /\ task' = [task EXCEPT ![h] =
                         [@ EXCEPT !.pc = "done", !.enum_cmd = cmd,
                                   !.shares = enumerate_shares(cmd)]]
            /\ LET maps == enumeration_effect(
                             [scan_results |-> scan_results,
                              host_details |-> host_details,
                              share_results |-> share_results],
                             task[h].host_display, enumerate_shares(cmd))
               IN /\ scan_results' = maps.scan_results
                  /\ host_details' = maps.host_details
                  /\ share_results' = maps.share_results
    /\ UNCHANGED <<standalone, results, reported, cfg, ports_to_scan, main_pc, exc, targets_scanned, probes_total,
                   target, hostname_cache, combined>>

(***************************************************************************)
(* scan_network, from the as_completed loop to the return (lines 492-513), *)
(* and main's merge of the returned maps (lines 693-703)                   *)
(***************************************************************************)
FailedHosts == {h \in AllHosts : task[h].pc = "failed"}

SN_Return ==
    /\ main_pc = "scanning"
    /\ AllFinished
    /\ IF \E h \in FailedHosts : ~HostLoopCatches(task[h].exc)
       THEN /\ main_pc' = "error"
            /\ UNCHANGED results
            /\ exc' = task[CHOOSE h \in FailedHosts :
                               ~HostLoopCatches(task[h].exc)].exc
            /\ UNCHANGED combined
       ELSE /\ main_pc' = "loop"
            /\ results' = ReturnedMaps
            /\ combined_scan_results' = update(combined_scan_results, scan_results)
            /\ combined_share_results' = update(combined_share_results, share_results)
            /\ combined_host_details' = update(combined_host_details, host_details)
            /\ UNCHANGED exc
    /\ UNCHANGED <<standalone, reported, cfg, ports_to_scan, targets_scanned, probes_total, target,
                   task,
                   engine>>

\* main's loop over the targets ends (lines 705-713): scan_results,
\* share_results and host_details are bound to the combined maps and then
\* bound again to the maps of results, the dict the last scan_network call
\* returned, which holds the engine's own maps
Main_Report ==
    /\ main_pc = "loop"
    /\ targets_scanned >= 1
    /\ main_pc' = "report"
    /\ reported' = contents(results)
    /\ UNCHANGED <<standalone, results, cfg, ports_to_scan, exc, targets_scanned, probes_total,
                   target, task, engine, combined>>

(***************************************************************************)
(* KeyboardInterrupt: raised in the main thread.  Inside scan_network it   *)
(* leaves the with block of the host pool, whose shutdown(wait=True) joins *)
(* the workers (queued tasks included) before the exception reaches main.  *)
(***************************************************************************)
Interrupt ==
    /\ main_pc \in {"loop", "scanning"}
    /\ main_pc' = IF main_pc = "scanning" THEN "unwinding" ELSE "interrupted"
    /\ exc' = IF main_pc = "scanning" THEN exc ELSE "KeyboardInterrupt"
    /\ UNCHANGED <<standalone, results, reported, cfg, ports_to_scan, targets_scanned, probes_total, target,
                   task,
                   engine, combined>>

SN_Unwound ==
    /\ main_pc = "unwinding"
    /\ AllFinished
    /\ main_pc' = "interrupted"
    /\ exc' = "KeyboardInterrupt"
    /\ UNCHANGED <<standalone, results, reported, cfg, ports_to_scan, targets_scanned, probes_total, target,
                   task,
                   engine, combined>>

Next ==
    \/ \E t \in Targets : Main_ScanNetwork(t)
    \/ \E h \in AllHosts, s \in 0..MaxPorts : HS_Start(h, s)
    \/ \E h \in AllHosts, i \in 1..MaxPorts : ProbeStart(h, i)
    \/ \E h \in AllHosts, i \in 1..MaxPorts, net \in NetOutcomes :
         ProbeComplete(h, i, net)
    \/ \E h \in AllHosts : HS_PoolExit(h)
    \/ \E h \in AllHosts : HS_PublishDetails(h)
    \/ \E h \in AllHosts, cmd \in CommandOutcomes : HS_EnumerateShares(h, cmd)
    \/ SN_Return
    \/ Main_Report
    \/ Interrupt
    \/ SN_Unwound

Spec == Init /\ [][Next]_vars

(***************************************************************************)
(* detect_os called on its own, on any list of open ports                  *)
(***************************************************************************)
\* ports of every signature table, of the bias tables and of none
DetectPorts ==
    {9, 22, 80, 81, 111, 135, 139, 445, 631, 1024, 1433, 2049, 8080, 9000}

OpenPortLists == UNION {[1..n -> DetectPorts] : n \in 0..MaxOpenPorts}

DetectInit ==
    /\ detect_os_arg \in OpenPortLists
    /\ detect_os_ret = NotCalled
    /\ cfg = [randomize_scan |-> TRUE, max_threads |-> DefaultMaxThreads,
              resolve_hostnames |-> FALSE, enumerate_shares |-> FALSE,
              scan_delay |-> 0]
    /\ ports_to_scan = <<>>
    /\ main_pc = "loop"
    /\ exc = "none"
    /\ targets_scanned = 0
    /\ probes_total = 0
    /\ target = ""
    /\ task = [h \in AllHosts |-> IdleTask]
    /\ scan_results = NoMap
    /\ host_details = NoMap
    /\ share_results = NoMap
    /\ hostname_cache = NoMap
    /\ combined_scan_results = NoMap
    /\ combined_share_results = NoMap
    /\ combined_host_details = NoMap
    /\ results = NoResults
    /\ reported = NoReport
    /\ NoExpansion
    /\ NoOpening

DetectOS ==
    /\ detect_os_ret = NotCalled
    /\ detect_os_ret' = detect_os(detect_os_arg)
    /\ UNCHANGED <<detect_os_arg, reported, cfg, ports_to_scan, main_pc, exc,
                   targets_scanned, probes_total, target, task, engine,
                   combined, expansion, opening, results>>

DetectNext == DetectOS

DetectSpec == DetectInit /\ [][DetectNext]_vars

\* a step of a pool thread, or of the main thread waiting for the pools
PoolStep ==
    \/ \E h \in AllHosts, s \in 0..MaxPorts : HS_Start(h, s)
    \/ \E h \in AllHosts, i \in 1..MaxPorts : ProbeStart(h, i)
    \/ \E h \in AllHosts, i \in 1..MaxPorts, net \in NetOutcomes :
         ProbeComplete(h, i, net)
    \/ \E h \in AllHosts : HS_PoolExit(h)
    \/ \E h \in AllHosts : HS_PublishDetails(h)
    \/ \E h \in AllHosts, cmd \in CommandOutcomes : HS_EnumerateShares(h, cmd)
    \/ SN_Return
    \/ SN_Unwound

\* Spec with the scheduling the pools give: while a thread of the scan can
\* take a step, one does: a queued task gets a worker, and every probe,
\* DNS lookup, stealth delay and share-enumeration call returns (each carries
\* a timeout).  The user starts scans and interrupts at will.
LiveSpec == Spec /\ WF_vars(PoolStep)

(***************************************************************************)
(* scan_network on a network of any size, from the parse of the target to  *)
(* the submission of the host tasks (lines 463-490).  A network is given   *)
(* by its host bits (32 minus the prefix length of an IPv4 network, 128    *)
(* minus that of an IPv6 network), an address by its place in network      *)
(* order: 1 is the first usable address.                                    *)
(***************************************************************************)
\* the targets: every network of up to MaxHostBits host bits, and an IPv6
\* network with a 64-bit prefix, such as 2001:db8::/64
NetworkHostBits == (0..MaxHostBits) \cup {64}

\* len(list(network.hosts())): a /32 has one address, a /31 two, and any
\* other network all but the network and the broadcast address
num_hosts(bits) ==
    IF bits = 0 THEN 1 ELSE IF bits = 1 THEN 2 ELSE 2^bits - 2

\* line 466 builds the list of every address of the network before line 469
\* looks at its length: what that raises.  A list holds fewer than 2^60
\* entries (sys.maxsize / 8), and the memory of a machine fewer strings.
hosts_list_raises(bits) ==
    IF bits >= 60 THEN "MemoryError" ELSE "none"

\* [str(ip) for ip in network.hosts()]
hosts_list(bits) == [k \in 1..num_hosts(bits) |-> k]

\* lines 469-471: hosts[:255] when there are more than 255
limit_hosts(hosts) ==
    IF Len(hosts) > HostLimit THEN SubSeq(hosts, 1, HostLimit) ELSE hosts

\* s turned left by k places
rotated(s, k) ==
    [i \in 1..Len(s) |-> s[((i + k - 1) % Len(s)) + 1]]

\* random.shuffle on a list too long for all its orders to be written out:
\* the orders the model takes are the turns of the list and of its reverse
shuffle_long(s) ==
    IF Len(s) <= 3
    THEN shuffle(s)
    ELSE {rotated(s, k) : k \in 0..(Len(s) - 1)}
         \cup {rotated([i \in 1..Len(s) |-> s[Len(s) + 1 - i]], k) :
                 k \in 0..(Len(s) - 1)}

ExpandInit ==
    /\ cfg \in [randomize_scan : BOOLEAN,
                max_threads : {DefaultMaxThreads},
                resolve_hostnames : {FALSE},
                enumerate_shares : {FALSE},
                scan_delay : {0}]
    /\ sn_network \in NetworkHostBits
    /\ sn_hosts = <<>>
    /\ sn_pc = "parse"
    /\ ports_to_scan = <<>>
    /\ main_pc = "scanning"
    /\ exc = "none"
    /\ targets_scanned = 1
    /\ probes_total = 0
    /\ target = ""
    /\ task = [h \in AllHosts |-> IdleTask]
    /\ scan_results = NoMap
    /\ host_details = NoMap
    /\ share_results = NoMap
    /\ hostname_cache = NoMap
    /\ combined_scan_results = NoMap
    /\ combined_share_results = NoMap
    /\ combined_host_details = NoMap
    /\ results = NoResults
    /\ reported = NoReport
    /\ detect_os_arg = <<>>
    /\ detect_os_ret = NotCalled
    /\ NoOpening

\* lines 464-475: the address list and its limit; an exception the handler
\* of line 473 does not catch leaves scan_network and ends main's loop
SN_Parse ==
    /\ sn_pc = "parse"
    /\ IF hosts_list_raises(sn_network) # "none"
          /\ ~ParseHandlerCatches(hosts_list_raises(sn_network))
       THEN /\ sn_pc' = "raised"
            /\ main_pc' = "error"
            /\ exc' = hosts_list_raises(sn_network)
            /\ UNCHANGED sn_hosts
       ELSE /\ sn_pc' = "shuffle"
            /\ sn_hosts' = limit_hosts(hosts_list(sn_network))
            /\ UNCHANGED <<main_pc, exc>>
    /\ UNCHANGED <<classifier, opening, results, sn_network, reported, cfg, ports_to_scan,
                   targets_scanned, probes_total, target, task, engine,
                   combined>>

\* lines 478-485: the order of the hosts
SN_Shuffle ==
    /\ sn_pc = "shuffle"
    /\ sn_pc' = "submit"
    /\ sn_hosts' \in (IF cfg.randomize_scan
                      THEN shuffle_long(sn_hosts)
                      ELSE {sn_hosts})
    /\ UNCHANGED <<classifier, opening, results, sn_network, reported, cfg, ports_to_scan,
                   main_pc, exc, targets_scanned, probes_total, target, task,
                   engine, combined>>

\* line 490: a scan_host task is submitted for every entry of hosts
SN_Submit ==
    /\ sn_pc = "submit"
    /\ sn_pc' = "submitted"
    /\ UNCHANGED <<classifier, opening, results, sn_network, sn_hosts, reported, cfg,
                   ports_to_scan, main_pc, exc, targets_scanned, probes_total,
                   target, task, engine, combined>>

ExpandNext ==
    \/ SN_Parse
    \/ SN_Shuffle
    \/ SN_Submit

ExpandSpec == ExpandInit /\ [][ExpandNext]_vars

(***************************************************************************)
(* scan_host from its call to the submission of its probes (lines          *)
(* 162-190), statement by statement, with resolve_hostname (lines 125-142) *)
(* in it, for the host tasks of 10.0.0.0/30 running in one host pool, in   *)
(* one scan_network call after the other                                   *)
(***************************************************************************)
\* the names a reverse lookup may answer with: the zone can change between
\* two lookups
DnsNames == {"alpha", "beta"}

\* what socket.gethostbyaddr does: it returns a name or raises
DnsAnswers == DnsNames \cup {"herror", "gaierror", "timeout"}

\* except (socket.herror, socket.gaierror, socket.timeout)
ResolveHandlerCatches(e) == e \in {"herror", "gaierror", "timeout"}

\* a cache that is never read
cache_never_hit(ip) == FALSE

\* line 127: ip in self.hostname_cache
cache_hit(ip) == ip \in DOMAIN hostname_cache

\* n / q rounded to the nearest integer, a tie to the even one: the
\* rounding of a float product, in units of the smallest positive float
round_half_even(n, q) ==
    LET f == n \div q
        r == n % q
    IN IF 2 * r < q THEN f
       ELSE IF 2 * r > q THEN f + 1
       ELSE IF f % 2 = 0 THEN f ELSE f + 1

\* random.uniform(a, b): a + (b - a) * self.random(), where random() has
\* returned k / RandomSteps
uniform(a, b, k) == a + round_half_even((b - a) * k, RandomSteps)

\* a delay before the probes of every host, whatever the order of the scan
sleeps_in_any_order == cfg.scan_delay > 0

\* lines 171 and 175: the delay is inside the branch of randomize_scan
sleeps == cfg.randomize_scan /\ cfg.scan_delay > 0

ScanHostInit ==
    /\ cfg \in [randomize_scan : BOOLEAN,
                max_threads : {DefaultMaxThreads},
                resolve_hostnames : BOOLEAN,
                enumerate_shares : {FALSE},
                scan_delay : 0..MaxDelay]
    /\ NoOpening
    /\ NoExpansion
    /\ ports_to_scan = <<80>>
    /\ main_pc = "loop"
    /\ exc = "none"
    /\ targets_scanned = 0
    /\ probes_total = 0
    /\ target = ""
    /\ task = [h \in AllHosts |-> IdleTask]
    /\ scan_results = NoMap
    /\ host_details = NoMap
    /\ share_results = NoMap
    /\ hostname_cache = NoMap
    /\ combined_scan_results = NoMap
    /\ combined_share_results = NoMap
    /\ combined_host_details = NoMap
    /\ results = NoResults
    /\ reported = NoReport
    /\ detect_os_arg = <<>>
    /\ detect_os_ret = NotCalled

\* what no step of scan_host's opening writes
OpeningFrame == <<classifier, expansion, results, reported, cfg, ports_to_scan, exc,
                  probes_total, target, task, scan_results, host_details,
                  share_results, combined>>

\* line 490: scan_network submits a scan_host task for every host
Pool_Submit ==
    /\ main_pc = "loop"
    /\ targets_scanned < MaxTargets
    /\ \A h \in AllHosts : sh[h].pc \in {"idle", "returned"}
    /\ main_pc' = "scanning"
    /\ targets_scanned' = targets_scanned + 1
    /\ sh' = [h \in AllHosts |-> [NoFrame EXCEPT !.pc = "called"]]
    /\ UNCHANGED <<OpeningFrame, default_timeout, dns_queries, hostname_cache>>

\* lines 165-168
SH_Call(h) ==
    /\ sh[h].pc = "called"
    /\ sh' = [sh EXCEPT ![h] =
                IF cfg.resolve_hostnames
                THEN [@ EXCEPT !.pc = "cache"]
                ELSE [@ EXCEPT !.pc = "order", !.host_display = h]]
    /\ UNCHANGED <<OpeningFrame, main_pc, targets_scanned, default_timeout,
                   dns_queries, hostname_cache>>

\* lines 127-128
RH_Cache(h) ==
    /\ sh[h].pc = "cache"
    /\ sh' = [sh EXCEPT ![h] =
                IF cache_hit(h)
                THEN [@ EXCEPT !.pc = "order", !.host_display = hostname_cache[h]]
                ELSE [@ EXCEPT !.pc = "get"]]
    /\ UNCHANGED <<OpeningFrame, main_pc, targets_scanned, default_timeout,
                   dns_queries, hostname_cache>>

\* line 132: old_timeout = socket.getdefaulttimeout()
RH_GetTimeout(h) ==
    /\ sh[h].pc = "get"
    /\ sh' = [sh EXCEPT ![h] = [@ EXCEPT !.pc = "set",
                                         !.old_timeout = default_timeout]]
    /\ UNCHANGED <<OpeningFrame, main_pc, targets_scanned, default_timeout,
                   dns_queries, hostname_cache>>

\* line 133: socket.setdefaulttimeout(2.0)
RH_SetTimeout(h) ==
    /\ sh[h].pc = "set"
    /\ default_timeout' = "2.0"
    /\ sh' = [sh EXCEPT ![h].pc = "lookup"]
    /\ UNCHANGED <<OpeningFrame, main_pc, targets_scanned, dns_queries,
                   hostname_cache>>

\* lines 134-136: the lookup, and after an answer the cache entry
RH_Lookup(h, answer) ==
    /\ sh[h].pc = "lookup"
    /\ dns_queries' = [dns_queries EXCEPT ![h] = @ + 1]
    /\ IF answer \in DnsNames
       THEN /\ hostname_cache' = store(hostname_cache, h, h \o "-" \o answer)
            /\ sh' = [sh EXCEPT ![h] = [@ EXCEPT !.pc = "restore",
                                                 !.host_display = h \o "-" \o answer]]
       ELSE /\ ResolveHandlerCatches(answer)
            /\ sh' = [sh EXCEPT ![h].pc = "except"]
            /\ UNCHANGED hostname_cache
    /\ UNCHANGED <<OpeningFrame, main_pc, targets_scanned, default_timeout>>

\* lines 137-138
RH_Restore(h) ==
    /\ sh[h].pc = "restore"
    /\ default_timeout' = sh[h].old_timeout
    /\ sh' = [sh EXCEPT ![h].pc = "order"]
    /\ UNCHANGED <<OpeningFrame, main_pc, targets_scanned, dns_queries,
                   hostname_cache>>

\* lines 139-142
RH_Except(h) ==
    /\ sh[h].pc = "except"
    /\ default_timeout' = sh[h].old_timeout
    /\ hostname_cache' = store(hostname_cache, h, h)
    /\ sh' = [sh EXCEPT ![h] = [@ EXCEPT !.pc = "order", !.host_display = h]]
    /\ UNCHANGED <<OpeningFrame, main_pc, targets_scanned, dns_queries>>

\* lines 171-179: the port order, and the delay drawn at line 176
SH_Order(h, k) ==
    /\ sh[h].pc = "order"
    /\ k \in 0..(RandomSteps - 1)
    /\ sh' = [sh EXCEPT ![h] =
                IF sleeps
                THEN [@ EXCEPT !.pc = "sleep",
                               !.delay = uniform(0, cfg.scan_delay, k)]
                ELSE [@ EXCEPT !.pc = "pool"]]
    /\ UNCHANGED <<OpeningFrame, main_pc, targets_scanned, default_timeout,
                   dns_queries, hostname_cache>>

\* line 177: time.sleep(delay) returns
SH_Sleep(h) ==
    /\ sh[h].pc = "sleep"
    /\ sh' = [sh EXCEPT ![h].pc = "pool"]
    /\ UNCHANGED <<OpeningFrame, main_pc, targets_scanned, default_timeout,
                   dns_queries, hostname_cache>>

\* lines 189-190: the port pool and the submission of the probes
SH_Pool(h) ==
    /\ sh[h].pc = "pool"
    /\ sh' = [sh EXCEPT ![h].pc = "probing"]
    /\ UNCHANGED <<OpeningFrame, main_pc, targets_scanned, default_timeout,
                   dns_queries, hostname_cache>>

\* lines 192-243: the rest of scan_host
SH_Return(h) ==
    /\ sh[h].pc = "probing"
    /\ sh' = [sh EXCEPT ![h].pc = "returned"]
    /\ UNCHANGED <<OpeningFrame, main_pc, targets_scanned, default_timeout,
                   dns_queries, hostname_cache>>

\* lines 492-513: every future is done and scan_network returns
Pool_Join ==
    /\ main_pc = "scanning"
    /\ \A h \in AllHosts : sh[h].pc = "returned"
    /\ main_pc' = "loop"
    /\ UNCHANGED <<OpeningFrame, targets_scanned, sh, default_timeout,
                   dns_queries, hostname_cache>>

ScanHostNext ==
    \/ Pool_Submit
    \/ \E h \in AllHosts : SH_Call(h)
    \/ \E h \in AllHosts : RH_Cache(h)
    \/ \E h \in AllHosts : RH_GetTimeout(h)
    \/ \E h \in AllHosts : RH_SetTimeout(h)
    \/ \E h \in AllHosts, answer \in DnsAnswers : RH_Lookup(h, answer)
    \/ \E h \in AllHosts : RH_Restore(h)
    \/ \E h \in AllHosts : RH_Except(h)
    \/ \E h \in AllHosts, k \in 0..(RandomSteps - 1) : SH_Order(h, k)
    \/ \E h \in AllHosts : SH_Sleep(h)
    \/ \E h \in AllHosts : SH_Pool(h)
    \/ \E h \in AllHosts : SH_Return(h)
    \/ Pool_Join

ScanHostSpec == ScanHostInit /\ [][ScanHostNext]_vars



(***************************************************************************)
(* Properties                                                              *)
(***************************************************************************)
\* scan_network has returned to main's loop
ScanReturned == main_pc = "loop" /\ targets_scanned >= 1

\* s and t hold the same entries, each as often
SameEntries(s, t) == sorted(s) = sorted(t)

StrictlyAscending(s) == \A i \in 1..(Len(s) - 1) : s[i] < s[i + 1]

FutDone(t) ==
    /\ Len(t.fut) = Len(ports_to_scan)
    /\ \A i \in 1..Len(t.fut) : t.fut[i] \in {"open", "closed", "raised"}

\* the ports whose probe answered open, in submission order
RECURSIVE OpenAnswers(_, _)
OpenAnswers(t, i) ==
    IF i > Len(t.fut) THEN <<>>
    ELSE (IF t.fut[i] = "open" THEN <<t.randomized_ports[i]>> ELSE <<>>)
         \o OpenAnswers(t, i + 1)

\* the keys of the hosts that the scan just made found open ports on
FoundNow == {task[h].host_display :
               h \in {g \in futures : task[g].pc = "done" /\ task[g].open_ports # <<>>}}

\* C1: after scan_network completes, every host's open-port list holds only
\* ports of the requested PortSet, is strictly ascending and has no port
\* twice, also for a PortSet that lists a port more than once.
C1_OpenPortsSortedUnique ==
    ScanReturned =>
      \A k \in DOMAIN scan_results :
        /\ Range(scan_results[k]) \subseteq Range(ports_to_scan)
        /\ StrictlyAscending(scan_results[k])

\* C2: the result maps are cleared at the start of every scan_network
\* invocation, so a returned result holds only hosts found in that invocation.
C2_ResultsOnlyFromThisInvocation ==
    ScanReturned =>
      /\ DOMAIN scan_results \subseteq FoundNow
      /\ DOMAIN share_results \subseteq FoundNow
      /\ DOMAIN host_details \subseteq FoundNow

\* C3: in a returned result, a host of the scanned target whose probes all
\* reported closed in that invocation is no key of scan_results or
\* host_details.
C3_ClosedHostAbsent ==
    ScanReturned =>
      \A h \in futures :
        (/\ task[h].pc = "done"
         /\ FutDone(task[h])
         /\ \A i \in 1..Len(task[h].fut) : task[h].fut[i] = "closed")
        => /\ task[h].host_display \notin DOMAIN scan_results
           /\ task[h].host_display \notin DOMAIN host_details

\* C4: randomization changes only order and timing: with randomize_scan on
\* or off, every host of the target gets a task, a host task probes exactly
\* the entries of the port list, and the open ports it records are the
\* sorted ports whose probes answered open.
C4_RandomizationKeepsSets ==
    /\ main_pc \in {"scanning", "unwinding"}
         => futures = Range(network_hosts(target))
    /\ \A h \in futures :
         /\ task[h].pc \notin {"queued"}
              => SameEntries(task[h].randomized_ports, ports_to_scan)
         /\ (task[h].pc \in {"pub_sr", "enum", "done"} /\ task[h].open_ports # <<>>)
              => /\ FutDone(task[h])
                 /\ task[h].host_display \in DOMAIN scan_results
                 /\ scan_results[task[h].host_display]
                      = sorted(OpenAnswers(task[h], 1))

C4_Witness ==
    /\ ScanReturned
    /\ cfg.randomize_scan
    /\ \E h \in futures :
         /\ task[h].pc = "done"
         /\ task[h].randomized_ports # ports_to_scan
         /\ task[h].host_display \in DOMAIN scan_results
         /\ Len(scan_results[task[h].host_display]) = 2

\* C5: an unparsable target is not fatal: its scan raises nothing into main,
\* so the remaining targets are still scanned.
C5_UnparsableTargetNotFatal ==
    (target # "" /\ ip_network_raises(target) # "none")
      => (exc = "none" /\ main_pc # "error")

C7_ProbeErrorIsClosed ==
    \A h \in futures :
      /\ task[h].exc # "ProbeException"
      /\ task[h].exc = "none" =>
           /\ SameEntries(task[h].open_ports, OpenAnswers(task[h], 1))
           /\ task[h].pc # "failed"
           /\ task[h].pc \in {"pub_sr", "enum", "done"} =>
                /\ FutDone(task[h])
                /\ task[h].open_ports # <<>> =>
                     /\ task[h].host_display \in DOMAIN scan_results
                     /\ scan_results[task[h].host_display]
                          = sorted(OpenAnswers(task[h], 1))

C7_Witness ==
    \E h \in futures :
      /\ task[h].pc = "done"
      /\ \E i, j \in 1..Len(task[h].fut) :
           /\ task[h].fut[i] = "raised"
           /\ task[h].fut[j] = "open"
      /\ task[h].host_display \in DOMAIN scan_results
      /\ task[h].host_display \in DOMAIN host_details

\* C8: a host's entry is written to the result maps only after every probe
\* submitted for that host has completed.
C8_PublishAfterAllProbes ==
    \A h \in futures :
      (\/ task[h].pc \in {"pub_sr", "enum"}
       \/ task[h].host_display \in DOMAIN host_details)
      => FutDone(task[h])

C8_Witness ==
    \E h \in futures :
      /\ task[h].pc = "pub_sr"
      /\ Len(task[h].fut) = 2
      /\ task[h].fut[1] = "closed"
      /\ task[h].fut[2] = "open"

\* C9: per-host publish is atomic: in no reachable state is a host present
\* in scan_results while its host_details entry is missing.
C9_PublishAtomic ==
    \A k \in DOMAIN scan_results : k \in DOMAIN host_details

\* C10: after a user interrupt arrives during scan_network, no host task and
\* no port probe that had not yet started is started.
C10_NoStartAfterInterrupt ==
    [][main_pc = "unwinding" =>
         \A h \in AllHosts :
           /\ task[h].pc = "queued" => task'[h].pc = "queued"
           /\ \A i \in 1..Len(task[h].fut) :
                task[h].fut[i] = "pending" => task'[h].fut[i] = "pending"]_vars

\* the host tasks that are running, and the probes of a task in flight
RunningHosts == {h \in AllHosts : Running(task[h])}

InFlight(t) == {i \in 1..Len(t.fut) : t.fut[i] = "running"}

\* C11: at every moment of a scan at most min(50, hostCount) host tasks are
\* running (the worker count of the host pool is min(50, hostCount) for every
\* host count up to the limit of 255: a fact about numbers alone, evaluated
\* before the first scan), and for each running host at most
\* min(max_threads, number of ports) probes are in flight.
C11_PoolsBounded ==
    /\ targets_scanned = 0 =>
         \A n \in 1..HostLimit : max_host_workers(n) = Min(HostPoolCap, n)
    /\ Cardinality(RunningHosts) <= Min(HostPoolCap, Cardinality(futures))
    /\ \A h \in AllHosts :
         Cardinality(InFlight(task[h]))
           <= Min(cfg.max_threads, Len(ports_to_scan))

\* a pool of one worker with a second probe waiting for it
C11_Witness ==
    /\ cfg.max_threads = 1
    /\ \E h \in RunningHosts :
         /\ Len(task[h].fut) = 2
         /\ task[h].fut[1] = "running"
         /\ task[h].fut[2] = "pending"

\* the host tasks of the running scan that have computed their result key
Started(t) == t.pc \notin {"idle", "queued"}

\* the step stores a value under key k of the map whose value goes from m to m2
Stored(m, m2, k) == k \in DOMAIN m2 /\ (k \notin DOMAIN m \/ m[k] # m2[k])

\* C12: within one scan_network invocation no two host tasks have the same
\* result key, and every store under a key of scan_results, host_details or
\* share_results is a step of the one running host task that owns the key,
\* with hostname resolution on or off.
C12_OnlyOwnerWrites ==
    /\ [](\A h, g \in futures :
            (h # g /\ Started(task[h]) /\ Started(task[g]))
              => task[h].host_display # task[g].host_display)
    /\ [][\A k \in DOMAIN scan_results' \cup DOMAIN host_details'
                   \cup DOMAIN share_results' :
            (\/ Stored(scan_results, scan_results', k)
             \/ Stored(host_details, host_details', k)
             \/ Stored(share_results, share_results', k))
            => \E h \in futures :
                 /\ Running(task[h])
                 /\ task[h].host_display = k
                 /\ task'[h] # task[h]
                 /\ \A g \in AllHosts \ {h} : task'[g] = task[g]]_vars

\* two host tasks about to publish at the same time, resolution on
C12_Witness ==
    /\ cfg.resolve_hostnames
    /\ \E h, g \in futures :
         /\ h # g
         /\ task[h].pc = "pub_sr"
         /\ task[g].pc = "pub_sr"
         /\ task[h].host_display \in DOMAIN scan_results
         /\ task[g].host_display \in DOMAIN scan_results

\* C13: given that every probe, DNS lookup, stealth delay and share
\* enumeration returns, every scan_network invocation eventually returns to
\* main's loop (or, interrupted by the user, hands the interrupt to main),
\* whatever the hosts and ports and also when host tasks fail.
C13_ScanNetworkReturns ==
    (main_pc = "scanning") ~> (main_pc \in {"loop", "interrupted"})

\* scan_network has returned although a host task failed
C13_Witness ==
    /\ ScanReturned
    /\ \E h \in futures : task[h].pc = "failed"
    /\ \E h \in futures : task[h].pc = "done" /\ Len(task[h].fut) >= 1

\* detect_os has returned
Called == detect_os_ret # NotCalled

\* the four categories in the order of precedence, with their scores
Categories(s) ==
    << [name |-> "Windows", score |-> s.windows_score],
       [name |-> "Linux/Unix", score |-> s.linux_score],
       [name |-> "macOS", score |-> s.macos_score],
       [name |-> "Embedded/IoT", score |-> s.embedded_score] >>

AllZero(s) == \A i \in 1..4 : Categories(s)[i].score = 0

\* the first category of the precedence order whose score is the maximum
FirstAtMax(s) ==
    LET c == Categories(s)
        i == CHOOSE k \in 1..4 :
               /\ \A j \in 1..4 : c[j].score <= c[k].score
               /\ \A j \in 1..(k - 1) : c[j].score < c[k].score
    IN c[i].name

\* the category of an os name ("Windows Server" names a Windows host with a
\* server port open)
CategoryOf(os) == IF os = "Windows Server" THEN "Windows" ELSE os

\* C14: the classifier returns Unknown with confidence Low exactly when all
\* four category scores are zero (the empty port list included); otherwise it
\* returns the first category, in the order Windows, Linux/Unix, macOS,
\* Embedded/IoT, whose score equals the maximum of the four.
C14_FirstCategoryAtMax ==
    Called =>
      LET s == final_scores(detect_os_arg)
      IN IF AllZero(s)
         THEN detect_os_ret.os = "Unknown" /\ detect_os_ret.confidence = "Low"
         ELSE /\ detect_os_ret.os # "Unknown"
              /\ CategoryOf(detect_os_ret.os) = FirstAtMax(s)

\* Linux/Unix and macOS tie at the maximum, Windows below it
C14_Witness ==
    /\ Called
    /\ LET s == final_scores(detect_os_arg)
       IN /\ s.linux_score = s.macos_score
          /\ s.linux_score > s.windows_score
          /\ s.linux_score > s.embedded_score
    /\ detect_os_ret.os = "Linux/Unix"

\* C15: when the four category scores are all equal and non-zero (open
\* ports 22, 81, 139, 631), the classifier returns Unknown with confidence
\* Low.
C15_AllEqualIsUnknown ==
    Called =>
      LET s == final_scores(detect_os_arg)
      IN (/\ s.windows_score > 0
          /\ s.windows_score = s.linux_score
          /\ s.linux_score = s.macos_score
          /\ s.macos_score = s.embedded_score)
         => /\ detect_os_ret.os = "Unknown"
            /\ detect_os_ret.confidence = "Low"

\* C16: for the open ports exactly 135, 139, 445 the classifier returns
\* Windows with confidence High and for exactly 22, 111, 2049 Linux/Unix with
\* confidence High; a combination bonus is in the score when all ports of
\* the combination are open, and not when one is missing.
C16_CombinationScenarios ==
    Called =>
      /\ Range(detect_os_arg) = {135, 139, 445} =>
           /\ detect_os_ret.os = "Windows"
           /\ detect_os_ret.confidence = "High"
           /\ Len(detect_os_arg) = 3 =>
                detect_os_ret.port_analysis.windows_score = (4 + 3 + 3) + 5 + 3
      /\ Range(detect_os_arg) = {22, 111, 2049} =>
           /\ detect_os_ret.os = "Linux/Unix"
           /\ detect_os_ret.confidence = "High"
           /\ Len(detect_os_arg) = 3 =>
                detect_os_ret.port_analysis.linux_score = (3 + 3 + 4) + 5
      /\ (Range(detect_os_arg) = {135, 445} /\ Len(detect_os_arg) = 2) =>
           detect_os_ret.port_analysis.windows_score = 4 + 3
      /\ (Range(detect_os_arg) = {22, 2049} /\ Len(detect_os_arg) = 2) =>
           detect_os_ret.port_analysis.linux_score = 3 + 4

C16_Witness ==
    /\ Called
    /\ detect_os_arg = <<445, 135, 139>>
    /\ detect_os_ret.os = "Windows"
    /\ detect_os_ret.confidence = "High"

\* the ports of a set as an ascending list
RECURSIVE ascending(_)
ascending(S) ==
    IF S = {} THEN <<>>
    ELSE LET m == CHOOSE x \in S : \A y \in S : x <= y
         IN <<m>> \o ascending(S \ {m})

\* C17: the classifier is a function of the open-port set: a call returns,
\* in every field, what a call on the same set of ports in ascending order
\* without repeats returns, whatever the order of the list and whether or
\* not a port is repeated in it.
C17_FunctionOfPortSet ==
    Called => detect_os_ret = detect_os(ascending(Range(detect_os_arg)))

\* C18: after a run over several targets the results used for reporting
\* hold the hosts found for every target, in the open-port map, the share
\* map and the detail map alike: every entry merged from a target's result
\* is reported, replaced only by a later entry of the same host key.
C18_ReportHoldsEveryTarget ==
    main_pc = "report" =>
      /\ reported.scan_results = combined_scan_results
      /\ reported.share_results = combined_share_results
      /\ reported.host_details = combined_host_details

\* a file-service port answered open to a probe of the task
FileServiceOpen(t) ==
    \E i \in 1..Len(t.fut) :
      t.fut[i] = "open" /\ t.randomized_ports[i] \in {139, 445, 2049}

\* C19: the share enumerator is invoked for a host exactly when share
\* enumeration is enabled and one of the ports 139, 445, 2049 was found open
\* on it; it is invoked with the raw IP, at most once per host per scan, and
\* only a non-empty share list is stored.
C19_EnumerationExactlyWhenFileService ==
    /\ \A h \in AllHosts :
         /\ Len(task[h].enum_args) <= 1
         /\ \A i \in 1..Len(task[h].enum_args) : task[h].enum_args[i] = h
         /\ IF task[h].pc \in {"enum", "done"}
            THEN task[h].enum_args # <<>>
                   <=> (cfg.enumerate_shares /\ FileServiceOpen(task[h]))
            ELSE task[h].enum_args = <<>>
    /\ \A k \in DOMAIN share_results : share_results[k] # <<>>

\* the enumerator was called with the address of a host whose key is
\* "<address>-<hostname>", and its shares are stored under the key
C19_Witness ==
    \E h \in futures :
      /\ task[h].pc = "done"
      /\ task[h].enum_args = <<h>>
      /\ task[h].host_display # h
      /\ task[h].host_display \in DOMAIN share_results
      /\ share_results[task[h].host_display] = task[h].shares

\* the outcomes of the external command that are failures
FailedCommands ==
    {"timeout", "missing_binary", "nonzero_exit", "decode_error", "unparsable"}

NothingEnumerated(t) ==
    /\ t.pc \in {"done", "failed"}
    /\ t.enum_args # <<>>
    /\ t.enum_cmd # ""
    /\ t.shares = <<>>

\* C21: when the share enumeration for a host with an open file-service port
\* fails or finds nothing, the host is still in the host results, and its
\* recorded open ports and its detail record (which holds the timings and the
\* OS fingerprint) are what they were before the enumeration attempt, during
\* the invocation and after its return.
C21_FailedEnumerationLeavesHost ==
    /\ [](\A h \in AllHosts :
            (NothingEnumerated(task[h])
               /\ (main_pc \in {"scanning", "unwinding"} \/ ScanReturned)) =>
              /\ task[h].host_display \in DOMAIN scan_results
              /\ task[h].host_display \in DOMAIN host_details
              /\ scan_results[task[h].host_display] = sorted(task[h].open_ports)
              /\ host_details[task[h].host_display].open_ports
                   = task[h].open_ports)
    /\ [][\A h \in AllHosts :
            (task[h].pc = "enum" /\ NothingEnumerated(task'[h])) =>
              /\ scan_results' = scan_results
              /\ host_details' = host_details
              /\ share_results' = share_results]_vars

\* the command timed out for one host and listed no share for the other, and
\* both hosts are in the results with their open ports
C21_Witness ==
    \E h, g \in futures :
      /\ NothingEnumerated(task[h]) /\ task[h].enum_cmd = "timeout"
      /\ NothingEnumerated(task[g]) /\ task[g].enum_cmd = "no_shares"
      /\ {task[h].host_display, task[g].host_display} \subseteq DOMAIN host_details
      /\ scan_results[task[h].host_display] = <<445>>

\* the target network has more than 255 usable addresses
LargeNetwork ==
    sn_network >= 60 \/ (sn_network >= 2 /\ num_hosts(sn_network) > HostLimit)

\* C22: for a target that expands to more than 255 usable host addresses,
\* the hosts submitted are exactly the first 255 addresses in network
\* order, with randomization on and off, and the rest is dropped without
\* an error.
C22_FirstHostLimitScanned ==
    LargeNetwork =>
      /\ sn_pc # "raised"
      /\ exc = "none"
      /\ sn_pc \in {"shuffle", "submit", "submitted"} =>
           /\ Len(sn_hosts) = HostLimit
           /\ Range(sn_hosts) = 1..HostLimit

\* the probes of the call have been submitted
Submitted(f) == f.pc \in {"probing", "returned"}

\* the call has drawn a delay
Delayed(f) == f.delay >= 0

\* the order of the steps around the delay, and when there is one
SleepBeforeProbes ==
    /\ [](\A h \in AllHosts :
            /\ sh[h].pc = "sleep" =>
                 (cfg.randomize_scan /\ cfg.scan_delay > 0 /\ Delayed(sh[h]))
            /\ sh[h].pc \in {"pool", "probing", "returned"} =>
                 (Delayed(sh[h]) <=> (cfg.randomize_scan /\ cfg.scan_delay > 0))
            /\ ~cfg.randomize_scan => ~Delayed(sh[h]))
    /\ [][\A h \in AllHosts :
            /\ (Delayed(sh'[h]) /\ ~Delayed(sh[h])) => sh'[h].pc = "sleep"
            /\ (Submitted(sh'[h]) /\ ~Submitted(sh[h])) => sh[h].pc = "pool"
            /\ sh[h].pc = "sleep" => sh'[h].pc \in {"sleep", "pool"}]_vars

\* C23, as claimed: a host scan sleeps before probing exactly when
\* randomization is enabled and the configured maximum delay is greater than
\* 0; the sleep lies in [0, maxDelay) and ends before the first probe of the
\* host is submitted; with randomization disabled there is no delay.
C23_SleepBelowMaxDelay ==
    /\ SleepBeforeProbes
    /\ [](\A h \in AllHosts :
            Delayed(sh[h]) => (0 <= sh[h].delay /\ sh[h].delay < cfg.scan_delay))

\* C23, amended: as claimed, but the sleep lies in [0, maxDelay]: the
\* product of line 176 can round to maxDelay itself.
C23_SleepUpToMaxDelay ==
    /\ SleepBeforeProbes
    /\ [](\A h \in AllHosts :
            Delayed(sh[h]) => (0 <= sh[h].delay /\ sh[h].delay <= cfg.scan_delay))

\* one host has slept for the whole of maxDelay and has its probes submitted
\* while the other, with a shorter delay, still sleeps
C23_Witness ==
    \E h, g \in AllHosts :
      /\ cfg.randomize_scan /\ cfg.scan_delay > 0
      /\ Submitted(sh[h]) /\ sh[h].delay = cfg.scan_delay
      /\ sh[g].pc = "sleep" /\ sh[g].delay < cfg.scan_delay

\* resolve_hostname has returned to the scan_host call of the frame
Resolved(f) == f.pc \in {"order", "sleep", "pool", "probing", "returned"}

\* "<ip>-<hostname>" for the names a lookup can answer with
NamedDisplays(ip) == {ip \o "-" \o n : n \in DnsNames}

\* C24: with hostname resolution enabled an address is looked up through
\* DNS at most once per engine: every resolution returns the cached display
\* name, which is "<ip>-<hostname>" when the lookup answered and the bare
\* address when it failed, and no cached entry is ever changed.
C24_ResolvedAtMostOnce ==
    /\ [](\A h \in AllHosts :
            /\ dns_queries[h] <= 1
            /\ h \in DOMAIN hostname_cache =>
                 /\ dns_queries[h] = 1
                 /\ hostname_cache[h] \in {h} \cup NamedDisplays(h)
            /\ (cfg.resolve_hostnames /\ Resolved(sh[h])) =>
                 /\ h \in DOMAIN hostname_cache
                 /\ sh[h].host_display = hostname_cache[h])
    /\ [][\A h \in AllHosts :
            /\ h \in DOMAIN hostname_cache =>
                 /\ h \in DOMAIN hostname_cache'
                 /\ hostname_cache'[h] = hostname_cache[h]
            /\ (h \notin DOMAIN hostname_cache /\ h \in DOMAIN hostname_cache') =>
                 IF sh[h].pc = "lookup"
                 THEN hostname_cache'[h] \in NamedDisplays(h)
                 ELSE sh[h].pc = "except" /\ hostname_cache'[h] = h]_vars

\* in the second scan both hosts got their display names from the cache, one
\* a name and one the bare address, each after the one lookup of the first scan
C24_Witness ==
    \E h, g \in AllHosts :
      /\ targets_scanned = 2
      /\ Resolved(sh[h]) /\ sh[h].host_display \in NamedDisplays(h)
      /\ Resolved(sh[g]) /\ sh[g].host_display = g
      /\ dns_queries[h] = 1 /\ dns_queries[g] = 1

\* C26: once the resolve_hostname calls of all the host tasks of the first
\* scan have returned, the default socket timeout is what it was before the
\* scan (None), whatever the interleaving of the calls.
C26_DefaultTimeoutRestored ==
    (/\ targets_scanned = 1
     /\ cfg.resolve_hostnames
     /\ \A h \in AllHosts : Resolved(sh[h]))
      => default_timeout = "None"

\* the score detect_os returned for the category of the os it returned
WinningScore ==
    LET c == CategoryOf(detect_os_ret.os)
        a == detect_os_ret.port_analysis
    IN IF c = "Windows" THEN a.windows_score
       ELSE IF c = "Linux/Unix" THEN a.linux_score
       ELSE IF c = "macOS" THEN a.macos_score
       ELSE a.embedded_score

\* C25: the confidence of a classification is a threshold function of the
\* score s of the winning category: Windows is High iff s >= 6 and Medium
\* iff 3 <= s < 6; Linux/Unix High iff s >= 5 and Medium iff 3 <= s < 5;
\* macOS High iff s >= 4 and Medium iff 2 <= s < 4; Embedded/IoT Medium iff
\* s >= 3 and never High; Low in every other case.
C25_ConfidenceThresholds ==
    (Called /\ detect_os_ret.os # "Unknown") =>
      LET c == CategoryOf(detect_os_ret.os)
          sc == WinningScore
          conf == detect_os_ret.confidence
      IN /\ conf \in {"High", "Medium", "Low"}
         /\ detect_os_ret.port_analysis = final_scores(detect_os_arg)
         /\ conf = "High" <=>
              \/ c = "Windows" /\ sc >= 6
              \/ c = "Linux/Unix" /\ sc >= 5
              \/ c = "macOS" /\ sc >= 4
         /\ conf = "Medium" <=>
              \/ c = "Windows" /\ 3 <= sc /\ sc < 6
              \/ c = "Linux/Unix" /\ 3 <= sc /\ sc < 5
              \/ c = "macOS" /\ 2 <= sc /\ sc < 4
              \/ c = "Embedded/IoT" /\ sc >= 3

\* an embedded device whose score is at the High threshold of Windows is
\* still classified with Medium confidence
C25_Witness ==
    /\ Called
    /\ detect_os_ret.os = "Embedded/IoT"
    /\ WinningScore >= 6
    /\ detect_os_ret.confidence = "Medium"

\* C27: after every scan_network invocation on an engine the returned
\* result is consistent: scan_results and host_details have the same keys,
\* and every key of share_results is a key of scan_results.
C27_ReturnedMapsConsistent ==
    ScanReturned =>
      /\ DOMAIN scan_results = DOMAIN host_details
      /\ DOMAIN share_results \subseteq DOMAIN scan_results

\* C28: the result a scan_network invocation returned is a stable value: no
\* later step of the engine adds, removes or changes an entry of it.
C28_ReturnedResultStable ==
    [][results # NoResults => contents(results)' = contents(results)]_vars

\* the task has its probes submitted, all of them
ProbesSubmitted(t) ==
    t.pc \in {"probing", "pub_sr", "enum", "done"} /\ t.exc = "none"

\* C29: scan_host never modifies the port list it is given, which the host
\* tasks of a scan share: every host task probes the entries of the list as
\* it was when the scan began, each entry once, in an order of its own.
C29_PortListNotModified ==
    /\ [][ports_to_scan' = ports_to_scan]_vars
    /\ [](\A h \in futures :
            ProbesSubmitted(task[h]) =>
              /\ Len(task[h].fut) = Len(ports_to_scan)
              /\ SameEntries(task[h].randomized_ports, ports_to_scan))

\* a host task has submitted its probes in the reverse order of the list,
\* and the list is as it was
C29_Witness ==
    \E h \in futures :
      /\ cfg.randomize_scan
      /\ task[h].pc = "probing"
      /\ ProbesSubmitted(task[h])
      /\ ports_to_scan = <<80, 445>>
      /\ task[h].randomized_ports = <<445, 80>>
      /\ task[h].fut = <<"pending", "pending">>

\* C30: scan_network called with an empty port list returns normally and
\* records no host: every host task fails when it creates its port pool
\* (max_workers = 0), and the failure ends at the host loop of scan_network.
C30_EmptyPortListContained ==
    ports_to_scan = <<>> =>
      /\ exc \notin {"PoolValueError", "SubmitRuntimeError", "ProbeException"}
      /\ main_pc = "error" => ip_network_raises(target) # "none"
      /\ \A h \in futures :
           /\ task[h].pc \in {"queued", "failed"}
           /\ task[h].pc = "failed" =>
                (task[h].exc = "PoolValueError" /\ task[h].fut = <<>>)
      /\ scan_results = NoMap
      /\ host_details = NoMap
      /\ share_results = NoMap
      /\ ScanReturned =>
           /\ futures = Range(network_hosts(target))
           /\ combined_scan_results = NoMap
           /\ combined_host_details = NoMap

\* scan_network has returned to main from a scan of two hosts with no port:
\* both host tasks failed on their pool, and no host is recorded
C30_Witness ==
    /\ ports_to_scan = <<>>
    /\ ScanReturned
    /\ exc = "none"
    /\ Cardinality(futures) = 2
    /\ \A h \in futures : task[h].pc = "failed" /\ task[h].exc = "PoolValueError"
    /\ host_details = NoMap

=============================================================================
